---- MODULE Spec2Model ----
(***************************************************************************)
(* A model of the desktop-wakatime core: the activity classifier           *)
(* (MonitoredApp), the heartbeat throttle and dispatcher and the update    *)
(* coordinator (Wakatime), and the key-down sampling path (Watcher).       *)
(*                                                                         *)
(* Text is modelled as a sequence of tokens.  A token is either a single   *)
(* character that the code's string operations look at (" ", "-", "/",     *)
(* ":", ".", "x") or a run of other characters ("Figma", "github.com").    *)
(* The empty string is <<>>; null/undefined is the value Null.             *)
(***************************************************************************)
EXTENDS Integers, Sequences, FiniteSets, TLC

VARIABLES
    \* ---- the wall clock (Date.now() / 1000, in whole seconds)
    now,
    \* ---- Activity Classifier: the inputs of one classification, its result
    windowInfo, app, domainPreference, siteAllowed, classified,
    \* ---- Wakatime: ThrottleState
    lastEntitiy, lastTime, lastCategory,
    \* ---- Wakatime: StatusCache
    lastCodeTimeFetched, lastCodeTimeText,
    \* ---- Wakatime: UpdateState
    lastCheckedForUpdates, lastPromptedToUpdateAt, lastPromptedToUpdateVersion,
    \* ---- settings and platform collaborators read by Wakatime
    settings, monitored,
    \* ---- the tray: status indicator image and status text
    trayImage, trayTitle,
    \* ---- asynchronous invocations suspended at an await
    initialized, inflight, nCalls,
    \* ---- Watcher
    \* (subscribed: the window manager holds the Watcher's callback)
    activeWindow, isWatchingForKeyboardEvents, listeners, activeWindowSubscription,
    subscribed,
    \* ---- LinuxWindowManager, the polling observer: init() (initPc), its
    \* fields, the polls in the order they started, the window the desktop
    \* has active, and what subscribeActiveWindow last returned
    initPc, dependenciesAvailable, lastActiveWindow, subscriptions, nextSubscriptionId,
    polls, osWindow, lastSubscribe,
    \* ---- observation of the polling observer: the last poll that built a
    \* window, and the window id last given to each subscription's callback
    lastPoll, delivered,
    \* ---- observation of what the handlers did
    \* (observe names the handlers whose last invocation is recorded)
    observe, lastCall, lastGate, latest, nonWriteAt, lastExec, lastFetch, lastSummary, lastCheck,
    feedAskedAt,
    offered, lastEvent, lastInstall,
    \* ---- a function of the program applied to one input: the arguments
    \* (with what the subprocesses it runs give back) and the result
    callArgs, callResult

clockVars == <<now>>
classifierVars == <<windowInfo, app, domainPreference, siteAllowed, classified>>
throttleVars == <<lastEntitiy, lastTime, lastCategory>>
statusVars == <<lastCodeTimeFetched, lastCodeTimeText>>
updateVars == <<lastCheckedForUpdates, lastPromptedToUpdateAt, lastPromptedToUpdateVersion>>
envVars == <<settings, monitored, observe>>
pureVars == <<callArgs, callResult>>
trayVars == <<trayImage, trayTitle>>
asyncVars == <<initialized, inflight, nCalls>>
observerVars == <<initPc, dependenciesAvailable, lastActiveWindow, subscriptions,
                  nextSubscriptionId, polls, osWindow, lastSubscribe, lastPoll, delivered>>
\* the Watcher and the window manager it subscribes to
watcherVars == <<activeWindow, isWatchingForKeyboardEvents, listeners,
                 activeWindowSubscription, subscribed, observerVars>>
heartbeatObs == <<lastCall, lastGate, latest, nonWriteAt, lastExec>>
summaryObs == <<lastFetch, lastSummary>>
updateObs == <<lastCheck, feedAskedAt, offered, lastEvent, lastInstall>>
vars == <<clockVars, classifierVars, throttleVars, statusVars, updateVars, envVars, pureVars,
          trayVars, asyncVars, watcherVars, heartbeatObs, summaryObs, updateObs>>

-----------------------------------------------------------------------------
(* Text helpers *)

Null == <<"null">>

\* JavaScript truthiness of a string-or-null value
Truthy(s) == s # Null /\ s # <<>>

Separator == <<" ", "-", " ">>

IsSubAt(s, pat, i) ==
    /\ i >= 1
    /\ i + Len(pat) - 1 <= Len(s)
    /\ SubSeq(s, i, i + Len(pat) - 1) = pat

RECURSIVE IndexOfFrom(_, _, _)
\* String.prototype.indexOf from position i (1-based); 0 when absent
IndexOfFrom(s, pat, i) ==
    IF i + Len(pat) - 1 > Len(s) THEN 0
    ELSE IF IsSubAt(s, pat, i) THEN i
    ELSE IndexOfFrom(s, pat, i + 1)

\* s.split(sep)[0]
SplitFirst(s, sep) ==
    LET i == IndexOfFrom(s, sep, 1)
    IN  IF i = 0 THEN s ELSE SubSeq(s, 1, i - 1)

RECURSIVE RunEnd(_, _)
\* the index of the last token of the maximal run of non-"/" tokens that
\* starts at i (i - 1 when the run is empty): the greedy match of [^/]+
RunEnd(s, i) ==
    IF i > Len(s) \/ s[i] = "/" THEN i - 1 ELSE RunEnd(s, i + 1)

-----------------------------------------------------------------------------
(* MonitoredApp: the Activity Classifier *)

NoApp == [present |-> FALSE, id |-> "none", isBrowser |-> FALSE,
          name |-> <<>>, version |-> Null]

category(a) ==
    IF ~a.present THEN "null"
    ELSE CASE a.id \in {"arcbrowser", "brave", "chrome", "firefox", "safari",
                        "safaripreview"} -> "browsing"
           [] a.id \in {"imessage", "microsoft_outlook", "slack", "wecom"} -> "communicating"
           [] a.id \in {"iterm2", "mac_terminal", "microsoft_excel", "windows_terminal",
                        "powershell", "warp", "xcode"} -> "coding"
           [] a.id \in {"postman", "tableplus"} -> "debugging"
           [] a.id \in {"microsoft_word", "notes", "notion"} -> "writing docs"
           [] a.id \in {"canva", "figma"} -> "designing"
           [] a.id \in {"whatsapp", "zoom"} -> "meeting"
           [] OTHER -> "null"

language(a) ==
    IF ~a.present THEN "null"
    ELSE CASE a.id \in {"canva", "figma"} -> "Image (svg)"
           [] a.id = "postman" -> "HTTP Request"
           [] OTHER -> "null"

Providers == {"github", "bitbucket", "gitlab"}

\* /HOST\/[^/]+\/([^/]+)\/?.*$/ tried at position i: the capture, or Null
HostingAt(url, host, i) ==
    IF i + 1 > Len(url) \/ url[i] # host \/ url[i + 1] # "/" THEN Null
    ELSE LET ownerEnd == RunEnd(url, i + 2)
         IN  IF ownerEnd < i + 2 \/ ownerEnd + 1 > Len(url) THEN Null
             ELSE LET repoEnd == RunEnd(url, ownerEnd + 2)
                  IN  IF repoEnd < ownerEnd + 2 THEN Null
                      ELSE SubSeq(url, ownerEnd + 2, repoEnd)

\* /(github|bitbucket|gitlab)\/[^/]+\/([^/]+)\/?.*$/ tried at position j
ProviderAt(url, j) ==
    IF j + 1 > Len(url) \/ url[j] \notin Providers \/ url[j + 1] # "/" THEN Null
    ELSE LET ownerEnd == RunEnd(url, j + 2)
         IN  IF ownerEnd < j + 2 \/ ownerEnd + 1 > Len(url) THEN Null
             ELSE LET repoEnd == RunEnd(url, ownerEnd + 2)
                  IN  IF repoEnd < ownerEnd + 2 THEN Null
                      ELSE SubSeq(url, ownerEnd + 2, repoEnd)

RECURSIVE MatchHostingFrom(_, _, _)
\* leftmost match of a code-hosting pattern
MatchHostingFrom(url, host, i) ==
    IF i > Len(url) THEN Null
    ELSE IF HostingAt(url, host, i) # Null THEN HostingAt(url, host, i)
    ELSE MatchHostingFrom(url, host, i + 1)

RECURSIVE LastProviderFrom(_, _, _)
\* the greedy ".*" of the circleci pattern: the last position >= lo where
\* the provider tail matches, scanning down from j
LastProviderFrom(url, lo, j) ==
    IF j < lo THEN Null
    ELSE IF ProviderAt(url, j) # Null THEN ProviderAt(url, j)
    ELSE LastProviderFrom(url, lo, j - 1)

RECURSIVE MatchCircleFrom(_, _)
\* /app\.circleci\.com\/.*\/?(github|bitbucket|gitlab)\/[^/]+\/([^/]+)\/?.*$/
MatchCircleFrom(url, i) ==
    IF i > Len(url) THEN Null
    ELSE IF /\ i + 1 <= Len(url)
            /\ url[i] = "app.circleci.com"
            /\ url[i + 1] = "/"
            /\ LastProviderFrom(url, i + 2, Len(url)) # Null
         THEN LastProviderFrom(url, i + 2, Len(url))
    ELSE MatchCircleFrom(url, i + 1)

RECURSIVE MatchTravisFrom(_, _, _)
\* /app\.travis-ci\.(com|org)\/(github|bitbucket|gitlab)\/[^/]+\/([^/]+)\/?.*$/
MatchTravisFrom(url, host, i) ==
    IF i > Len(url) THEN Null
    ELSE IF /\ i + 1 <= Len(url)
            /\ url[i] = host
            /\ url[i + 1] = "/"
            /\ ProviderAt(url, i + 2) # Null
         THEN ProviderAt(url, i + 2)
    ELSE MatchTravisFrom(url, host, i + 1)

NumPatterns == 6

\* url.match(patterns[k].expression)[patterns[k].group], or Null
PatternMatch(k, url) ==
    CASE k = 1 -> MatchHostingFrom(url, "github.com", 1)
      [] k = 2 -> MatchHostingFrom(url, "gitlab.com", 1)
      [] k = 3 -> MatchHostingFrom(url, "bitbucket.org", 1)
      [] k = 4 -> MatchCircleFrom(url, 1)
      [] k = 5 -> MatchTravisFrom(url, "app.travis-ci.com", 1)
      [] k = 6 -> MatchTravisFrom(url, "app.travis-ci.org", 1)

RECURSIVE projectFrom(_, _)
\* the for loop over patterns, from pattern k on
projectFrom(url, k) ==
    IF k > NumPatterns THEN Null
    ELSE IF PatternMatch(k, url) # Null THEN PatternMatch(k, url)
    ELSE projectFrom(url, k + 1)

project(w) ==
    IF ~Truthy(w.url) THEN Null ELSE projectFrom(w.url, 1)

\* ---- new URL(url): a URL is <<scheme, "/", "/">> \o authority \o path
DefaultPort(scheme) == IF scheme = "https:" THEN "443" ELSE "80"

AuthorityEnd(url) ==
    LET i == IndexOfFrom(url, <<"/">>, 4)
    IN  IF i = 0 THEN Len(url) ELSE i - 1

Authority(url) == SubSeq(url, 4, AuthorityEnd(url))

UrlHostname(url) == SplitFirst(Authority(url), <<":">>)

\* URL.port: "" when absent or the scheme's default
UrlPort(url) ==
    LET a == Authority(url)
        i == IndexOfFrom(a, <<":">>, 1)
    IN  IF i = 0 \/ i = Len(a) THEN <<>>
        ELSE IF a[i + 1] = DefaultPort(url[1]) THEN <<>>
        ELSE <<a[i + 1]>>

\* URL.host: the hostname, and ":port" when the port is not the default
UrlHost(url) ==
    IF UrlPort(url) = <<>> THEN UrlHostname(url)
    ELSE UrlHostname(url) \o <<":">> \o UrlPort(url)

\* host.replace(/^www./, ""): "www" and any one character after it
StripWww(host) ==
    IF Len(host) >= 2 /\ host[1] = "www" THEN SubSeq(host, 3, Len(host))
    ELSE host

domainFromUrl(url) ==
    LET host == UrlHost(url)
        port == UrlPort(url)
        domain == StripWww(host)
    IN  IF port # <<>> THEN domain \o <<":">> \o port ELSE domain

TitleBlocked == {"arcbrowser", "brave", "canva", "chrome", "firefox", "notes",
                 "safari", "safaripreview", "xcode", "microsoft_edge"}

\* title with the placeholders of the figma branch left out
title_NoPlaceholder(w, a) ==
    CASE a.id \in TitleBlocked -> <<a.id, " should never use window title as entity">>
      [] a.id \in {"figma", "warp", "postman"} ->
            LET t == SplitFirst(w.title, Separator)
            IN  IF t = <<>> THEN Null ELSE t
      [] OTHER -> IF w.title # <<>> THEN SplitFirst(w.title, Separator) ELSE w.info.name

title(w, a) ==
    CASE a.id \in TitleBlocked -> <<a.id, " should never use window title as entity">>
      [] a.id = "figma" ->
            LET t == SplitFirst(w.title, Separator)
            IN  IF t = <<>> \/ t = <<"Figma">> \/ t = <<"Drafts">> THEN Null ELSE t
      [] a.id = "warp" ->
            LET t == SplitFirst(w.title, Separator)
            IN  IF t = <<>> \/ t = <<"Wrap">> THEN Null ELSE t
      [] a.id = "postman" ->
            LET t == SplitFirst(w.title, Separator)
            IN  IF t = <<>> \/ t = <<"Postman">> THEN Null ELSE t
      [] OTHER -> IF w.title # <<>> THEN SplitFirst(w.title, Separator) ELSE w.info.name

entity(w, a, allowed, preference) ==
    IF a.present /\ a.isBrowser
    THEN IF Truthy(w.url) /\ allowed
         THEN IF preference = "domain" THEN domainFromUrl(w.url) ELSE w.url
         ELSE Null
    ELSE CASE a.id \in {"canva", "notes"} -> Null
           [] OTHER -> title(w, a)

NoHeartbeat == [none |-> TRUE]

\* heartbeatData without the "if (!entity) return null"
heartbeatData_AnyEntity(w, a, allowed, preference) ==
    [none |-> FALSE, entity |-> entity(w, a, allowed, preference),
     category |-> category(a), language |-> language(a), project |-> project(w)]

heartbeatData(w, a, allowed, preference) ==
    LET e == entity(w, a, allowed, preference)
    IN  IF ~Truthy(e) THEN NoHeartbeat
        ELSE [none |-> FALSE, entity |-> e, category |-> category(a),
              language |-> language(a), project |-> project(w)]

-----------------------------------------------------------------------------
(* Wakatime: throttle, dispatcher, today summary, update coordinator *)

ThrottleSeconds == 120
CodeTimeSeconds == 120
UpdateCheckSeconds == 600
PromptSeconds == 604800
MsPerSecond == 1000

\* Date.now(), in milliseconds
DateNow == now * MsPerSecond

\* shouldSendHeartbeat without the isWrite test
shouldSendHeartbeat_NoWrite(e, time, isWrite, cat) ==
    \/ cat # lastCategory
    \/ (Truthy(e) /\ lastEntitiy # e)
    \/ lastTime + ThrottleSeconds < time

\* shouldSendHeartbeat with the entity test reduced to "if (entity)"
shouldSendHeartbeat_AnyEntity(e, time, isWrite, cat) ==
    \/ isWrite
    \/ cat # lastCategory
    \/ Truthy(e)
    \/ lastTime + ThrottleSeconds < time

\* shouldSendHeartbeat with the window compared by "<="
shouldSendHeartbeat_Inclusive(e, time, isWrite, cat) ==
    \/ isWrite
    \/ cat # lastCategory
    \/ (Truthy(e) /\ lastEntitiy # e)
    \/ lastTime + ThrottleSeconds <= time

\* TRUE, or FALSE for the undefined the code falls through to
shouldSendHeartbeat(e, time, isWrite, cat) ==
    \/ isWrite
    \/ cat # lastCategory
    \/ (Truthy(e) /\ lastEntitiy # e)
    \/ lastTime + ThrottleSeconds < time

\* The outcome of exec(cli, ...args): "ok", an error whose text contains
\* the given substrings, or an exception thrown by the spawn machinery
ExecErrors == {[kind |-> "error", enoent |-> a, eperm |-> b] : a, b \in BOOLEAN}
ExecThrows == {[kind |-> "throw", enoent |-> a, eperm |-> FALSE] : a \in BOOLEAN}
ExecOutcomes == {[kind |-> "ok", enoent |-> FALSE, eperm |-> FALSE]}
                \cup ExecThrows \cup ExecErrors

NotifyCli == "Unable to execute WakaTime cli. Please make sure WakaTime is not being blocked by AV software."
NotifyDefender == "Microsoft Defender is blocking WakaTime. Please allow WakaTime to run so it can upload code stats to your dashboard."

\* the handling of the heartbeat exec result with the ENOENT branch lost
HeartbeatResult_NoEnoent(outcome, image) ==
    CASE outcome.kind = "throw" ->
            [image |-> image, balloon |-> FALSE, notification |-> "none"]
      [] outcome.kind = "ok" ->
            [image |-> IF settings.tray THEN "normal" ELSE image,
             balloon |-> FALSE, notification |-> "none"]
      [] OTHER ->
            IF outcome.eperm
            THEN [image |-> IF settings.tray THEN "alarm" ELSE image,
                  balloon |-> settings.tray,
                  notification |-> IF settings.notifications THEN NotifyDefender ELSE "none"]
            ELSE [image |-> image, balloon |-> settings.tray, notification |-> "none"]

\* the handling of the heartbeat exec result with the reset of the tray
\* image on success lost
HeartbeatResult_NoReset(outcome, image) ==
    CASE outcome.kind \in {"throw", "ok"} ->
            [image |-> image, balloon |-> FALSE, notification |-> "none"]
      [] OTHER ->
            IF outcome.enoent
            THEN [image |-> IF settings.tray THEN "alarm" ELSE image,
                  balloon |-> settings.tray,
                  notification |-> IF settings.notifications THEN NotifyCli ELSE "none"]
            ELSE IF outcome.eperm
            THEN [image |-> IF settings.tray THEN "alarm" ELSE image,
                  balloon |-> settings.tray,
                  notification |-> IF settings.notifications THEN NotifyDefender ELSE "none"]
            ELSE [image |-> image, balloon |-> settings.tray, notification |-> "none"]

\* the handling of the heartbeat exec result with every error result
\* setting the tray image, the ones without "ENOENT" and "EPERM" included
HeartbeatResult_AnyErrorAlarms(outcome, image) ==
    CASE outcome.kind = "throw" ->
            [image |-> image, balloon |-> FALSE, notification |-> "none"]
      [] outcome.kind = "ok" ->
            [image |-> IF settings.tray THEN "normal" ELSE image,
             balloon |-> FALSE, notification |-> "none"]
      [] OTHER ->
            IF outcome.enoent
            THEN [image |-> IF settings.tray THEN "alarm" ELSE image,
                  balloon |-> settings.tray,
                  notification |-> IF settings.notifications THEN NotifyCli ELSE "none"]
            ELSE IF outcome.eperm
            THEN [image |-> IF settings.tray THEN "alarm" ELSE image,
                  balloon |-> settings.tray,
                  notification |-> IF settings.notifications THEN NotifyDefender ELSE "none"]
            ELSE [image |-> IF settings.tray THEN "alarm" ELSE image,
                  balloon |-> settings.tray, notification |-> "none"]

\* what the try block of sendHeartbeat does with the result of exec: the
\* tray image afterwards, whether the balloon was displayed, and the body
\* of the notification shown ("none" when none was)
HeartbeatResult(outcome, image) ==
    CASE outcome.kind = "throw" ->
            [image |-> image, balloon |-> FALSE, notification |-> "none"]
      [] outcome.kind = "ok" ->
            [image |-> IF settings.tray THEN "normal" ELSE image,
             balloon |-> FALSE, notification |-> "none"]
      [] OTHER ->
            IF outcome.enoent
            THEN [image |-> IF settings.tray THEN "alarm" ELSE image,
                  balloon |-> settings.tray,
                  notification |-> IF settings.notifications THEN NotifyCli ELSE "none"]
            ELSE IF outcome.eperm
            THEN [image |-> IF settings.tray THEN "alarm" ELSE image,
                  balloon |-> settings.tray,
                  notification |-> IF settings.notifications THEN NotifyDefender ELSE "none"]
            ELSE [image |-> image, balloon |-> settings.tray, notification |-> "none"]

\* canPromptToUpdate ignoring the version that was prompted
canPromptToUpdate_AnyVersion(newVersion) ==
    lastPromptedToUpdateAt + PromptSeconds * MsPerSecond < DateNow

\* the same with the prompt period taken in seconds where Date.now() is
\* in milliseconds
canPromptToUpdate_Seconds(newVersion) ==
    \/ lastPromptedToUpdateAt + PromptSeconds < DateNow
    \/ lastPromptedToUpdateVersion # newVersion

canPromptToUpdate(newVersion) ==
    \/ lastPromptedToUpdateAt + PromptSeconds * MsPerSecond < DateNow
    \/ lastPromptedToUpdateVersion # newVersion

\* whether checkForUpdates gets as far as autoUpdater.checkForUpdatesAndNotify()
ChecksFeed ==
    /\ settings.autoUpdateEnabled
    /\ ~settings.isDev
    /\ ~(lastCheckedForUpdates + UpdateCheckSeconds * MsPerSecond > DateNow)

\* checkForUpdates(): lastCheckedForUpdates is read and never written.
\* feedAskedAt observes when the feed client was last asked
\* (autoUpdater.checkForUpdatesAndNotify; 0: never), and lastCheck the
\* call: whether it asked, and how long after the feed was last asked
\* (-1: it never was)
checkForUpdates ==
    /\ feedAskedAt' = IF ChecksFeed THEN now ELSE feedAskedAt
    /\ lastCheck' = IF "check" \in observe
                    THEN [called |-> TRUE, checked |-> ChecksFeed,
                          sinceAsked |-> IF feedAskedAt = 0 THEN -1
                                         ELSE now - feedAskedAt]
                    ELSE IF "count" \in observe
                    THEN [called |-> TRUE,
                          n |-> IF lastCheck.called THEN lastCheck.n + 1 ELSE 1]
                    ELSE lastCheck
    /\ UNCHANGED <<updateVars, offered, lastEvent, lastInstall>>

-----------------------------------------------------------------------------
(* Bounds of the model *)

\* the clock at start: later than one prompt period after the epoch, as
\* every real Date.now() is
StartTime == 604801
MaxCalls == 2
\* subscriptions made on, and polls started by, the polling observer
MaxSubs == 2
MaxPolls == 3

PathA == <<"/opt/a">>
PathB == <<"/opt/b">>
AppName == <<"App">>

Entities == {<<>>, <<"a">>, <<"b">>}
HbCategories == {"null", "browsing"}
SummaryTexts == {"1 hr", "2 hrs"}
\* the instants, in seconds after StartTime, at which something happens
HbInstants == {0, 1, ThrottleSeconds, ThrottleSeconds + 1}

SomeApp == [present |-> TRUE, id |-> "slack", isBrowser |-> FALSE,
            name |-> AppName, version |-> Null]

Window(path, name) ==
    [id |-> "w", title |-> <<>>, url |-> Null,
     info |-> [processId |-> 1, path |-> path, name |-> name]]

\* the windows and catalog entries a heartbeat sample comes with: a
\* monitored app, no path, an app that is not monitored, no display name
\* at all, and a display name known to the catalog only
HbSamples == {<<Window(PathA, AppName), SomeApp>>, <<Window(Null, AppName), SomeApp>>,
              <<Window(PathB, AppName), SomeApp>>, <<Window(PathA, <<>>), NoApp>>,
              <<Window(PathA, <<>>), SomeApp>>}

HbProps == {[appData |-> s[2], windowInfo |-> s[1], entity |-> e, category |-> c,
             isWrite |-> w] :
            s \in HbSamples, e \in Entities, c \in HbCategories, w \in BOOLEAN}

NoCall == [called |-> FALSE, gap |-> -1]
NoExec == [done |-> FALSE]
NoDispatch == [inFlight |-> FALSE, failed |-> FALSE]
NoCheck == [called |-> FALSE]
Versions == {"1.2.0", "1.3.0"}

NoEvent == [type |-> "none", version |-> "", at |-> 0, acted |-> FALSE,
            prevType |-> "none", prevVersion |-> "",
            installed |-> "", sinceInstall |-> -1, sinceSame |-> -1]
NoInstall == [version |-> "", at |-> 0, byVersion |-> [v \in Versions |-> 0]]

-----------------------------------------------------------------------------
(* Wakatime: the handlers *)

\* the clock set to any other of the given instants, earlier ones included
Tick_Backwards(instants) ==
    \E i \in instants :
        /\ StartTime + i # now
        /\ now' = StartTime + i

\* the clock advances to a later one of the given instants
Tick(instants) ==
    \E i \in instants :
        /\ StartTime + i > now
        /\ now' = StartTime + i

\* inflight counts the invocations suspended at an await: sendHeartbeat at
\* its exec (heartbeat), fetchToday at its exec when sendHeartbeat awaits
\* it (today) and when another caller started it (todayAlone)
Suspend(bag, pc) == [bag EXCEPT ![pc] = @ + 1]
Resume(bag, pc) == [bag EXCEPT ![pc] = @ - 1]

\* the test of fetchToday on the age of the summary, with the time taken
\* in milliseconds
summaryFresh_Millis(time) ==
    lastCodeTimeFetched + CodeTimeSeconds > time * MsPerSecond

\* the summary was asked for less than CodeTimeSeconds before time
summaryFresh(time) ==
    lastCodeTimeFetched + CodeTimeSeconds > time

\* fetchToday() called now would run the CLI
TodaySpawns ==
    /\ settings.showCodeTimeInStatusBar
    /\ ~summaryFresh(now)

\* no fetchToday call seen yet, and the record of one: how it ended
\* ("cleared", "reused", "spawned"), the time since the CLI was last run
\* for the summary (-1: never) and the time it was last run at; or the
\* number of calls so far
NoFetch == [called |-> FALSE, spawnedAt |-> 0]
fetchObserved(how) ==
    IF "fetch" \in observe
    THEN [called |-> TRUE, how |-> how,
          gap |-> IF lastFetch.spawnedAt = 0 THEN -1 ELSE now - lastFetch.spawnedAt,
          spawnedAt |-> IF how = "spawned" THEN now ELSE lastFetch.spawnedAt]
    ELSE IF "count" \in observe
    THEN [called |-> TRUE, spawnedAt |-> 0,
          n |-> IF lastFetch.called THEN lastFetch.n + 1 ELSE 1]
    ELSE lastFetch

\* fetchToday() up to its first await, for a caller that holds the
\* suspended invocations rest; when the CLI is run the invocation stays
\* suspended as pc
fetchTodayStart(pc, rest) ==
    LET time == now
    IN  IF ~settings.showCodeTimeInStatusBar
        THEN /\ trayTitle' = IF settings.tray THEN "" ELSE trayTitle
             /\ inflight' = rest
             /\ lastFetch' = fetchObserved("cleared")
             /\ UNCHANGED statusVars
        ELSE IF summaryFresh(time)
        THEN /\ trayTitle' = IF settings.tray THEN lastCodeTimeText ELSE trayTitle
             /\ inflight' = rest
             /\ lastFetch' = fetchObserved("reused")
             /\ UNCHANGED statusVars
        ELSE /\ lastCodeTimeFetched' = time
             /\ lastFetch' = fetchObserved("spawned")
             /\ inflight' = Suspend(rest, pc)
             /\ UNCHANGED <<lastCodeTimeText, trayTitle>>

\* the tests after the throttle decision, with isMonitored left out
passesGate_NoMonitoring(windowPath, appName) ==
    /\ Truthy(windowPath)
    /\ Truthy(appName)

\* the tests sendHeartbeat makes after the throttle decision: an
\* executable path that is monitored, and a display name
passesGate(windowPath, appName) ==
    /\ Truthy(windowPath)
    /\ windowPath \in monitored
    /\ Truthy(appName)

\* the assignments to ThrottleState left to after the CLI has run
throttleOnApproval_Deferred(e, cat, time) ==
    [entity |-> lastEntitiy, category |-> lastCategory, time |-> lastTime]

\* ThrottleState as sendHeartbeat assigns it once a sample has passed
throttleOnApproval(e, cat, time) ==
    [entity |-> e, category |-> cat, time |-> time]

\* sendHeartbeat(props) up to its first await.  latest observes the
\* heartbeat dispatched last: its sample, whether its CLI process is still
\* running, and whether it failed.  nonWriteAt observes the
\* time of the latest dispatched non-write heartbeat since the last
\* dispatched heartbeat of another entity or category (0: none), and gap
\* the time from it to this heartbeat, when this one is dispatched as a
\* non-write heartbeat of that entity and category (-1 otherwise)
sendHeartbeat(props) ==
    LET cat == IF props.category = "null" THEN "coding" ELSE props.category
        time == now
        approved == shouldSendHeartbeat(props.entity, time, props.isWrite, cat)
        windowPath == props.windowInfo.info.path
        appName == IF Truthy(props.windowInfo.info.name)
                   THEN props.windowInfo.info.name
                   ELSE IF props.appData.present THEN props.appData.name ELSE Null
        passes == approved /\ passesGate(windowPath, appName)
        sameRun == props.entity = lastEntitiy /\ cat = lastCategory
        next == throttleOnApproval(props.entity, cat, time)
        gap == IF passes /\ ~props.isWrite /\ sameRun /\ nonWriteAt # 0
               THEN time - nonWriteAt ELSE -1
    IN  /\ nCalls' = nCalls + 1
        /\ lastCall' = IF observe \cap {"call", "retry"} # {}
                       THEN [called |-> TRUE, entity |-> props.entity, category |-> cat,
                             isWrite |-> props.isWrite, approved |-> approved,
                             spawned |-> passes, gap |-> gap]
                       ELSE lastCall
        /\ lastGate' = IF "gate" \in observe
                       THEN [called |-> TRUE, windowPath |-> windowPath,
                             appName |-> appName, approved |-> approved,
                             spawned |-> passes]
                       ELSE lastGate
        /\ IF passes
           THEN /\ lastEntitiy' = next.entity
                /\ lastCategory' = next.category
                /\ lastTime' = next.time
                /\ latest' = IF "retry" \in observe
                             THEN [inFlight |-> TRUE, failed |-> FALSE,
                                   entity |-> props.entity, category |-> cat,
                                   time |-> time]
                             ELSE latest
                /\ nonWriteAt' = IF "call" \notin observe THEN nonWriteAt
                                 ELSE IF ~props.isWrite THEN time
                                 ELSE IF sameRun THEN nonWriteAt ELSE 0
                /\ inflight' = Suspend(inflight, "heartbeat")
           ELSE UNCHANGED <<throttleVars, latest, nonWriteAt, inflight>>
        /\ UNCHANGED <<lastExec, statusVars, updateVars, trayVars, summaryObs, updateObs>>

\* a caller invokes sendHeartbeat
SendHeartbeat ==
    /\ initialized
    /\ nCalls < MaxCalls
    /\ \E props \in HbProps : sendHeartbeat(props)
    /\ UNCHANGED <<clockVars, classifierVars, envVars, pureVars, initialized, watcherVars>>

\* the end of sendHeartbeat with the call of checkForUpdates left out
afterDispatch_NoCheck ==
    /\ fetchTodayStart("today", Resume(inflight, "heartbeat"))
    /\ UNCHANGED <<lastSummary, updateVars, updateObs>>

\* the statements of sendHeartbeat after its try block: fetchToday() up to
\* its await, then (when fetchToday did not suspend) checkForUpdates()
afterDispatch ==
    /\ fetchTodayStart("today", Resume(inflight, "heartbeat"))
    /\ UNCHANGED lastSummary
    /\ IF TodaySpawns THEN UNCHANGED <<updateVars, updateObs>> ELSE checkForUpdates

\* exec(cli, ...args) of a heartbeat settles: the rest of the try block,
\* whatever the outcome, then the statements after it
HeartbeatExecReturns ==
    \E outcome \in ExecOutcomes, isLatest \in BOOLEAN :
        /\ inflight.heartbeat > 0
        \* the process is that of the heartbeat dispatched last, or an older one
        /\ IF isLatest THEN latest.inFlight
           ELSE inflight.heartbeat > (IF latest.inFlight THEN 1 ELSE 0)
        /\ latest' = IF isLatest
                     THEN [latest EXCEPT !.inFlight = FALSE,
                                         !.failed = (outcome.kind # "ok")]
                     ELSE latest
        /\ LET r == HeartbeatResult(outcome, trayImage)
           IN  /\ trayImage' = r.image
               /\ lastExec' = IF "exec" \in observe
                               THEN [done |-> TRUE, outcome |-> outcome,
                                     was |-> IF "reset" \in observe THEN trayImage
                                             ELSE "unseen",
                                     balloon |-> r.balloon,
                                     notification |-> r.notification]
                               ELSE lastExec
        /\ afterDispatch
        /\ UNCHANGED <<clockVars, classifierVars, throttleVars, envVars, pureVars, initialized,
                       nCalls, watcherVars, lastCall, lastGate, nonWriteAt>>

\* no summary query settled yet, and the record of one: how the exec
\* ended and what it printed
NoSummary == [done |-> FALSE]
summaryObserved(kind, output) ==
    IF "fetch" \in observe
    THEN [done |-> TRUE, kind |-> kind, output |-> output]
    ELSE lastSummary

\* the rest of fetchToday with the test of err left out
fetchTodayEnd_IgnoreErr(kind, output) ==
    /\ lastSummary' = summaryObserved(kind, output)
    /\ IF kind # "throw"
       THEN /\ lastCodeTimeText' = output
            /\ trayTitle' = IF settings.tray THEN output ELSE trayTitle
       ELSE UNCHANGED <<lastCodeTimeText, trayTitle>>

\* the rest of fetchToday once its exec settled
fetchTodayEnd(kind, output) ==
    /\ lastSummary' = summaryObserved(kind, output)
    /\ IF kind = "ok"
       THEN /\ lastCodeTimeText' = output
            /\ trayTitle' = IF settings.tray THEN output ELSE trayTitle
       ELSE UNCHANGED <<lastCodeTimeText, trayTitle>>

\* exec(cli, "--today", ...) settles in a fetchToday that sendHeartbeat
\* awaits: the rest of fetchToday, then checkForUpdates()
TodayExecReturns ==
    \E kind \in {"ok", "error", "throw"}, output \in SummaryTexts :
        /\ inflight.today > 0
        /\ fetchTodayEnd(kind, output)
        /\ inflight' = Resume(inflight, "today")
        /\ checkForUpdates
        /\ UNCHANGED <<clockVars, classifierVars, throttleVars, lastCodeTimeFetched,
                       envVars, pureVars, trayImage, initialized, nCalls, watcherVars,
                       heartbeatObs, lastFetch>>

\* the same in a fetchToday started by init()
TodayAloneExecReturns ==
    \E kind \in {"ok", "error", "throw"}, output \in SummaryTexts :
        /\ inflight.todayAlone > 0
        /\ fetchTodayEnd(kind, output)
        /\ inflight' = Resume(inflight, "todayAlone")
        /\ UNCHANGED <<clockVars, classifierVars, throttleVars, lastCodeTimeFetched,
                       envVars, pureVars, trayImage, initialized, nCalls, watcherVars,
                       heartbeatObs, lastFetch, updateVars, updateObs>>

\* init(tray): setupAutoUpdater(), checkForUpdates(), fetchToday() up to
\* its await (settings.tray tells whether the tray given is non-null)
WakatimeInit ==
    /\ ~initialized
    /\ initialized' = TRUE
    /\ checkForUpdates
    /\ fetchTodayStart("todayAlone", inflight)
    /\ UNCHANGED <<clockVars, classifierVars, throttleVars, envVars, pureVars, trayImage, nCalls,
                   watcherVars, heartbeatObs, lastSummary>>

SettingsSet == [tray : BOOLEAN, notifications : BOOLEAN,
                showCodeTimeInStatusBar : BOOLEAN, autoUpdateEnabled : BOOLEAN,
                isDev : BOOLEAN]

SettingsOn == [tray |-> TRUE, notifications |-> TRUE, showCodeTimeInStatusBar |-> TRUE,
               autoUpdateEnabled |-> TRUE, isDev |-> FALSE]

\* the settings that differ from SettingsOn in the given fields only
SettingsVarying(fields) ==
    {s \in SettingsSet : \A f \in DOMAIN SettingsOn \ fields : s[f] = SettingsOn[f]}


InitClock == now = StartTime

InitClassifier ==
    /\ windowInfo = Window(Null, <<>>)
    /\ app = NoApp
    /\ domainPreference = "domain"
    /\ siteAllowed = FALSE
    /\ classified = [done |-> FALSE]

InitWakatime ==
    /\ lastEntitiy = <<>>
    /\ lastTime = 0
    /\ lastCategory = "coding"
    /\ lastCodeTimeFetched = 0
    /\ lastCodeTimeText = ""
    /\ lastCheckedForUpdates = 0
    /\ lastPromptedToUpdateAt = 0
    /\ lastPromptedToUpdateVersion = ""
    /\ trayImage = "normal"
    /\ trayTitle = ""
    /\ initialized = FALSE
    /\ inflight = [heartbeat |-> 0, today |-> 0, todayAlone |-> 0]
    /\ nCalls = 0
    /\ lastCall = NoCall
    /\ lastGate = [called |-> FALSE]
    /\ latest = NoDispatch
    /\ nonWriteAt = 0
    /\ lastExec = NoExec
    /\ lastFetch = NoFetch
    /\ lastSummary = NoSummary
    /\ lastCheck = NoCheck
    /\ feedAskedAt = 0
    /\ offered = {}
    /\ lastEvent = NoEvent
    /\ lastInstall = NoInstall

\* no window: the undefined of Watcher.activeWindow
NoWindow == [id |-> "none", title |-> <<>>, url |-> Null,
             info |-> [processId |-> 0, path |-> Null, name |-> <<>>]]

\* the null of Watcher.activeWindowSubscription, and the id that
\* subscribeActiveWindow returns where watching is unavailable
NoSubscription == 0
Unavailable == -1

\* a window id that is no window's: the null of lastActiveWindow
NoWindowId == "none"
NoPoll == [completed |-> FALSE, failed |-> FALSE, writer |-> 0]

\* LinuxWindowManager after construction, on a desktop with no active window
InitObserver ==
    /\ initPc = "idle"
    /\ dependenciesAvailable = FALSE
    /\ lastActiveWindow = NoWindowId
    /\ subscriptions = {}
    /\ nextSubscriptionId = 1
    /\ polls = <<>>
    /\ osWindow = NoWindowId
    /\ lastSubscribe = NoSubscription
    /\ lastPoll = NoPoll
    /\ delivered = [id \in 1..MaxSubs |-> NoWindowId]

\* no function applied
NoArgs == [fn |-> "none"]
NoResult == [done |-> FALSE]
InitPure ==
    /\ callArgs = NoArgs
    /\ callResult = NoResult

InitWatcher ==
    /\ activeWindow = NoWindow
    /\ isWatchingForKeyboardEvents = FALSE
    /\ listeners = 0
    /\ activeWindowSubscription = NoSubscription
    /\ subscribed = FALSE
    /\ InitObserver

\* Wakatime after construction and init(), with the invocations of the
\* handlers named by obs observed, under each value of the given settings
InitObserving(obs, fields) ==
    /\ InitClock
    /\ InitClassifier
    /\ InitWakatime
    /\ InitWatcher
    /\ InitPure
    /\ observe = obs
    /\ settings \in SettingsVarying(fields)
    /\ monitored = {PathA}

Init == InitObserving({"call"}, {"showCodeTimeInStatusBar"})

InitExec == InitObserving({"exec"}, {"tray", "notifications"})

TickHb ==
    /\ Tick(HbInstants)
    /\ UNCHANGED <<classifierVars, throttleVars, statusVars, updateVars, envVars, pureVars,
                   trayVars, asyncVars, watcherVars, heartbeatObs, summaryObs, updateObs>>

Next ==
    \/ WakatimeInit
    \/ TickHb
    \/ SendHeartbeat
    \/ HeartbeatExecReturns
    \/ TodayExecReturns
    \/ TodayAloneExecReturns

\* sendHeartbeat calls observed
Spec == Init /\ [][Next]_vars

\* the outcome of the heartbeat CLI observed
SpecExec == InitExec /\ [][Next]_vars

InitReset == InitObserving({"exec", "reset"}, {"tray"})

\* the outcome of the heartbeat CLI observed, with the tray image before it
SpecReset == InitReset /\ [][Next]_vars

InitRetry == InitObserving({"retry"}, {})

InitAfter == InitObserving({"exec", "count"}, {"showCodeTimeInStatusBar"})

\* the outcome of the heartbeat CLI observed, and the calls of fetchToday
\* and checkForUpdates counted
SpecAfter == InitAfter /\ [][Next]_vars

InitSummary == InitObserving({"fetch"}, {"showCodeTimeInStatusBar", "tray"})

\* fetchToday calls and the outcome of the summary CLI observed
SpecSummary == InitSummary /\ [][Next]_vars

\* sendHeartbeat calls and the fate of the heartbeat dispatched last observed
SpecRetry == InitRetry /\ [][Next]_vars

InitGate == InitObserving({"gate"}, {"showCodeTimeInStatusBar"})

\* the tests of sendHeartbeat on the window's path and name observed
SpecGate == InitGate /\ [][Next]_vars

-----------------------------------------------------------------------------
(* The update coordinator: the handlers setupAutoUpdater registers *)

\* seconds after StartTime: around the check period and the prompt period
UpdateInstants == {0, 1, UpdateCheckSeconds - 1, UpdateCheckSeconds,
                   PromptSeconds, PromptSeconds + 1}

Event(type, version, acted) ==
    IF "event" \in observe
    THEN [type |-> type, version |-> version, at |-> now, acted |-> acted,
          prevType |-> lastEvent.type, prevVersion |-> lastEvent.version,
          installed |-> lastInstall.version,
          sinceInstall |-> IF lastInstall.at = 0 THEN -1 ELSE now - lastInstall.at,
          sinceSame |-> IF lastInstall.byVersion[version] = 0 THEN -1
                        ELSE now - lastInstall.byVersion[version]]
    ELSE lastEvent

\* the feed client emits "update-available" for a version, after it was
\* asked to check; acted: the handler calls autoUpdater.downloadUpdate()
UpdateAvailable ==
    \E v \in Versions :
        /\ initialized
        /\ feedAskedAt # 0
        /\ offered' = offered \cup {v}
        /\ lastEvent' = Event("available", v, canPromptToUpdate(v))
        /\ UNCHANGED <<clockVars, classifierVars, throttleVars, statusVars, updateVars,
                       envVars, pureVars, trayVars, asyncVars, watcherVars, heartbeatObs,
                       summaryObs, lastCheck, feedAskedAt, lastInstall>>

\* the feed client emits "update-downloaded" for a version it offered
\* (autoDownload is on); acted: the handler records the prompt and calls
\* autoUpdater.quitAndInstall()
UpdateDownloaded ==
    \E v \in offered :
        /\ initialized
        /\ lastEvent' = Event("downloaded", v, canPromptToUpdate(v))
        /\ IF canPromptToUpdate(v)
           THEN /\ lastPromptedToUpdateVersion' = v
                /\ lastPromptedToUpdateAt' = DateNow
                /\ lastInstall' = [version |-> v, at |-> now,
                                   byVersion |-> [lastInstall.byVersion EXCEPT ![v] = now]]
           ELSE UNCHANGED <<lastPromptedToUpdateVersion, lastPromptedToUpdateAt,
                            lastInstall>>
        /\ UNCHANGED <<clockVars, classifierVars, throttleVars, statusVars,
                       lastCheckedForUpdates, envVars, pureVars, trayVars, asyncVars, watcherVars,
                       heartbeatObs, summaryObs, lastCheck, feedAskedAt, offered>>

\* sendHeartbeat reaches its last statement, checkForUpdates()
CheckForUpdates ==
    /\ initialized
    /\ nCalls < MaxCalls
    /\ nCalls' = nCalls + 1
    /\ checkForUpdates
    /\ UNCHANGED <<clockVars, classifierVars, throttleVars, statusVars, envVars, pureVars,
                   trayVars, initialized, inflight, watcherVars, heartbeatObs, summaryObs>>

TickUpdate ==
    /\ Tick(UpdateInstants)
    /\ UNCHANGED <<classifierVars, throttleVars, statusVars, updateVars, envVars, pureVars,
                   trayVars, asyncVars, watcherVars, heartbeatObs, summaryObs, updateObs>>

InitUpdate == InitObserving({"check", "event"}, {"autoUpdateEnabled", "isDev"})

NextUpdate ==
    \/ WakatimeInit
    \/ TodayAloneExecReturns
    \/ TickUpdate
    \/ CheckForUpdates
    \/ UpdateAvailable
    \/ UpdateDownloaded

\* the update coordinator, with its calls and events observed
SpecUpdate == InitUpdate /\ [][NextUpdate]_vars

-----------------------------------------------------------------------------
(* The classifier applied to one window snapshot *)

MaxTitleLen == 6
MaxPathLen == 3

TitleTokens == {"Figma", "Untitled", " ", "-"}

ExampleTitles ==
    {<<"Homepage", " ", "Design", " ", "-", " ", "Figma">>,
     <<"Drafts", " ", "-", " ", "Figma">>,
     <<"Drafts">>,
     <<"Wrap">>,
     <<"Postman", " ", "-", " ", "x">>,
     <<"a", " ", "-", " ", "b", " ", "-", " ", "c">>}

\* the titles of at most maxLen tokens, and the examples
Titles(maxLen) == UNION {[1..k -> TitleTokens] : k \in 0..maxLen} \cup ExampleTitles

FewTitles == {<<>>, <<"Untitled">>, <<"Untitled", " ", "-", " ", "Figma">>} \cup ExampleTitles

RECURSIVE Slashed(_)
\* the path "/s1/s2/..." of the given segments
Slashed(segs) ==
    IF segs = <<>> THEN <<>> ELSE <<"/", Head(segs)>> \o Slashed(Tail(segs))

Schemes == {"http:", "https:"}
HostPrefixes == {<<>>, <<"www", ".">>, <<"www", "x", ".">>}
Hosts == {"github.com", "gitlab.com", "bitbucket.org", "app.circleci.com",
          "app.travis-ci.com", "app.travis-ci.org", "example.com"}
Ports == {<<>>, <<":", "8080">>, <<":", "443">>}
Segments == {"acme", "widgets", "github"}

ExampleUrls ==
    {<<"https:", "/", "/", "github.com">>
        \o Slashed(<<"acme", "widgets", "pull", "9">>),
     <<"https:", "/", "/", "gitlab.com">>
        \o Slashed(<<"acme", "github.com", "x", "y">>),
     <<"https:", "/", "/", "app.circleci.com">>
        \o Slashed(<<"pipelines", "github", "acme", "widgets">>),
     <<"http:", "/", "/", "www", ".", "example.com", ":", "8080">> \o Slashed(<<"x">>)}

\* the URLs with a path of at most maxLen segments, and the examples
Urls(maxLen) ==
    {<<sch, "/", "/">> \o pre \o <<h>> \o port \o Slashed(segs) :
        sch \in Schemes, pre \in HostPrefixes, h \in Hosts, port \in Ports,
        segs \in UNION {[1..k -> Segments] : k \in 0..maxLen}}
    \cup ExampleUrls

CatalogApp(id, isBrowser) ==
    [present |-> TRUE, id |-> id, isBrowser |-> isBrowser, name |-> AppName,
     version |-> Null]

Snapshot(ttl, url, name) ==
    [id |-> "w", title |-> ttl, url |-> url,
     info |-> [processId |-> 1, path |-> PathA, name |-> name]]

PlainIds == TitleBlocked \cup {"warp", "postman", "slack"}

\* what the classifier is given: figma with every title, the other
\* catalog ids as non-browser apps and no catalog entry at all with a few
\* titles, and browsers with every URL, filter answer and preference
ClassifyInputs(titleLen, pathLen) ==
    {[w |-> Snapshot(t, Null, AppName), a |-> CatalogApp("figma", FALSE),
      allowed |-> TRUE, preference |-> "domain"] : t \in Titles(titleLen)}
    \cup
    {[w |-> Snapshot(t, Null, n), a |-> a, allowed |-> TRUE, preference |-> "domain"] :
        t \in FewTitles, n \in {<<>>, AppName},
        a \in {CatalogApp(id, FALSE) : id \in PlainIds} \cup {NoApp}}
    \cup
    {[w |-> Snapshot(<<"Untitled">>, u, AppName), a |-> CatalogApp(id, TRUE),
      allowed |-> al, preference |-> pr] :
        u \in Urls(pathLen) \cup {Null, <<>>}, id \in {"chrome"}, al \in BOOLEAN,
        pr \in {"domain", "url"}}

InitClassify ==
    /\ InitClock
    /\ InitWakatime
    /\ InitWatcher
    /\ InitPure
    /\ observe = {}
    /\ settings = SettingsOn
    /\ monitored = {PathA}
    /\ \E i \in ClassifyInputs(MaxTitleLen, MaxPathLen) :
        /\ windowInfo = i.w
        /\ app = i.a
        /\ siteAllowed = i.allowed
        /\ domainPreference = i.preference
    /\ classified = [done |-> FALSE]

\* MonitoredApp.heartbeatData(windowInfo, app), with the entity it is
\* computed from
Classify ==
    /\ ~classified.done
    /\ classified' = [done |-> TRUE,
                      entity |-> entity(windowInfo, app, siteAllowed, domainPreference),
                      data |-> heartbeatData(windowInfo, app, siteAllowed,
                                             domainPreference)]
    /\ UNCHANGED <<clockVars, windowInfo, app, domainPreference, siteAllowed,
                   throttleVars, statusVars, updateVars, envVars, pureVars, trayVars, asyncVars,
                   watcherVars, heartbeatObs, summaryObs, updateObs>>

NextClassify == Classify

\* the classifier applied to each input
SpecClassify == InitClassify /\ [][NextClassify]_vars

-----------------------------------------------------------------------------
(* Watcher: the window-change callback and the key-down sampling path *)

PathFigma == <<"/opt/figma">>
PathChrome == <<"/opt/chrome">>

\* AppsManager.instance().getApp(path): the catalog entry of an executable
getApp(path) ==
    CASE path = PathA -> SomeApp
      [] path = PathFigma -> CatalogApp("figma", FALSE)
      [] path = PathChrome -> CatalogApp("chrome", TRUE)
      [] OTHER -> NoApp

DesktopWindow(pid, path, ttl, url, name) ==
    [id |-> "w", title |-> ttl, url |-> url,
     info |-> [processId |-> pid, path |-> path, name |-> name]]

\* the windows the window manager reports
WatcherWindows ==
    {DesktopWindow(1, PathA, <<"general", " ", "-", " ", "Slack">>, Null, AppName),
     DesktopWindow(2, PathFigma, <<"Figma">>, Null, AppName),
     DesktopWindow(2, PathFigma, <<"Homepage", " ", "Design", " ", "-", " ", "Figma">>,
                   Null, AppName),
     DesktopWindow(3, PathChrome, <<"Untitled">>,
                   <<"https:", "/", "/", "github.com", "/", "acme", "/", "widgets">>,
                   AppName),
     DesktopWindow(3, PathChrome, <<"Untitled">>, Null, AppName),
     DesktopWindow(5, PathB, <<>>, Null, <<>>),
     DesktopWindow(6, Null, <<"Untitled">>, Null, AppName),
     DesktopWindow(0, PathA, <<"Untitled">>, Null, AppName)}

\* start(): windowManager.init() and subscribeActiveWindow(callback)
WatcherStart ==
    \E id \in {1, Unavailable} :
        /\ activeWindowSubscription = NoSubscription
        /\ activeWindowSubscription' = id
        /\ subscribed' = (id # Unavailable)
        /\ UNCHANGED <<clockVars, classifierVars, throttleVars, statusVars, updateVars,
                       envVars, pureVars, trayVars, asyncVars, activeWindow,
                       isWatchingForKeyboardEvents, listeners, observerVars, heartbeatObs,
                       summaryObs, updateObs>>

\* stop(): unsubscribeActiveWindow(activeWindowSubscription)
WatcherStop ==
    /\ activeWindowSubscription # NoSubscription
    /\ subscribed
    /\ subscribed' = FALSE
    /\ UNCHANGED <<clockVars, classifierVars, throttleVars, statusVars, updateVars,
                   envVars, pureVars, trayVars, asyncVars, activeWindow,
                   isWatchingForKeyboardEvents, listeners, activeWindowSubscription,
                   observerVars, heartbeatObs, summaryObs, updateObs>>

\* the listeners left when the callback skips unwatchKeyboardEvents()
unwatchKeyboardEvents_Skipped(watching, n) == n

\* the listeners left of n once the callback has called
\* unwatchKeyboardEvents() if isWatchingForKeyboardEvents was set
unwatchKeyboardEvents(watching, n) ==
    IF watching /\ n > 0 THEN n - 1 ELSE n

\* the callback start() subscribes, invoked with the newly active window
WindowChanged ==
    \E w \in WatcherWindows :
        /\ subscribed
        /\ w.info.processId # 0
        /\ activeWindow.info.processId # w.info.processId
        /\ LET unwatched == unwatchKeyboardEvents(isWatchingForKeyboardEvents, listeners)
               isMonitored == Truthy(w.info.path) /\ w.info.path \in monitored
           IN  /\ activeWindow' = w
               /\ isWatchingForKeyboardEvents' = isMonitored
               /\ listeners' = IF isMonitored THEN unwatched + 1 ELSE unwatched
        /\ UNCHANGED <<clockVars, classifierVars, throttleVars, statusVars, updateVars,
                       envVars, pureVars, trayVars, asyncVars, activeWindowSubscription, subscribed,
                       observerVars, heartbeatObs, summaryObs, updateObs>>

\* globalKeyListener for a "DOWN" event: the window manager's current
\* window is classified (the site filter and the domain preference
\* answering either way) and, with heartbeat data, handed to sendHeartbeat;
\* classified observes the classification and whether the call was made
KeyDown ==
    \E w \in WatcherWindows, allowed \in BOOLEAN, preference \in {"domain", "url"} :
        /\ listeners > 0
        /\ initialized
        /\ nCalls < MaxCalls
        /\ Truthy(w.info.path)
        \* the filter and the preference are consulted for a URL only
        /\ Truthy(w.url) \/ (allowed /\ preference = "domain")
        /\ LET a == getApp(w.info.path)
               data == heartbeatData(w, a, allowed, preference)
           IN  /\ windowInfo' = w
               /\ app' = a
               /\ classified' = [done |-> TRUE,
                                 entity |-> entity(w, a, allowed, preference),
                                 data |-> data, sent |-> data # NoHeartbeat]
               /\ IF data = NoHeartbeat
                  THEN UNCHANGED <<throttleVars, statusVars, updateVars, trayVars,
                                   inflight, nCalls, heartbeatObs, summaryObs, updateObs>>
                  ELSE sendHeartbeat([appData |-> a, windowInfo |-> w,
                                      entity |-> data.entity, category |-> data.category,
                                      isWrite |-> FALSE])
        /\ UNCHANGED <<clockVars, siteAllowed, domainPreference, envVars, pureVars, initialized,
                       watcherVars>>

WatchInstants == {0, ThrottleSeconds + 1}

TickWatch ==
    /\ Tick(WatchInstants)
    /\ UNCHANGED <<classifierVars, throttleVars, statusVars, updateVars, envVars, pureVars,
                   trayVars, asyncVars, watcherVars, heartbeatObs, summaryObs, updateObs>>

InitWatch ==
    /\ InitClock
    /\ InitClassifier
    /\ InitWakatime
    /\ InitWatcher
    /\ InitPure
    /\ observe = {}
    /\ settings = SettingsOn
    /\ monitored = {PathA, PathFigma, PathChrome}

NextWatch ==
    \/ WakatimeInit
    \/ TickWatch
    \/ WatcherStart
    \/ WatcherStop
    \/ WindowChanged
    \/ KeyDown
    \/ HeartbeatExecReturns
    \/ TodayExecReturns
    \/ TodayAloneExecReturns

\* the Watcher feeding Wakatime
SpecWatch == InitWatch /\ [][NextWatch]_vars

\* MonitoringManager.set(app, enabled): the user turns the monitoring of
\* an application on or off
SetMonitored ==
    \E path \in {PathA, PathB, PathFigma}, enabled \in BOOLEAN :
        /\ monitored' = IF enabled THEN monitored \cup {path} ELSE monitored \ {path}
        /\ monitored' # monitored
        /\ UNCHANGED <<clockVars, classifierVars, throttleVars, statusVars, updateVars,
                       settings, observe, pureVars, trayVars, asyncVars, watcherVars, heartbeatObs,
                       summaryObs, updateObs>>

NextListen ==
    \/ WatcherStart
    \/ WatcherStop
    \/ WindowChanged
    \/ SetMonitored

\* the Watcher's key-down listener while the monitoring settings change
SpecListen == InitWatch /\ [][NextListen]_vars

-----------------------------------------------------------------------------
(* Wakatime: the plugin string *)

MaxNameLen == 2

\* the characters of an application name or version, one of each kind: a
\* letter, the space, a control character that is no white space, DEL, a
\* letter outside ASCII, the no-break space, and a character beyond U+FFFF
Chars == {"a", " ", "U+0001", "U+007F", "U+00E9", "U+00A0", "U+1F600"}

\* what \s matches
WhiteSpace == {" ", "U+00A0"}

\* what [\u{0080}-\u{FFFF}] matches
Stripped == {"U+00E9", "U+00A0"}

\* U+0020 to U+007E
PrintableAscii == {"a", " "}

\* s.replace(/\s/g, "")
WithoutWhiteSpace(s) == SelectSeq(s, LAMBDA c : c \notin WhiteSpace)

\* s.replace(/[\u{0080}-\u{FFFF}]/gu, "")
WithoutStripped(s) == SelectSeq(s, LAMBDA c : c \notin Stripped)

\* this.versionString, and the literals of the template
VersionString == <<"linux-wakatime/1.4.2">>
Unknown == <<"unknown">>
Literals == {"linux-wakatime/1.4.2", "unknown", "/"}

\* pluginString(appData, windowInfo): a is what the two arguments hold:
\* windowName is windowInfo?.info.name, appName is appData?.name and
\* version is appData?.version, each Null when undefined
pluginString(a) ==
    LET appName == IF Truthy(a.windowName) THEN a.windowName ELSE a.appName
    IN  IF ~Truthy(appName)
        THEN VersionString
        ELSE LET appNameSafe == WithoutWhiteSpace(appName)
                 noSpace == IF a.version = Null THEN <<>>
                            ELSE WithoutWhiteSpace(a.version)
                 appVersion == IF noSpace = <<>> THEN Unknown ELSE noSpace
             IN  WithoutStripped(appNameSafe \o <<"/">> \o appVersion \o <<" ">>
                                 \o VersionString)

\* the texts of at most maxLen characters
Texts(maxLen) == UNION {[1..k -> Chars] : k \in 0..maxLen}

PluginInputs(maxLen) ==
    [fn : {"pluginString"}, windowName : {Null, <<>>, <<"a">>},
     appName : Texts(maxLen) \cup {Null}, version : Texts(maxLen) \cup {Null}]

InitPlugin ==
    /\ InitClock
    /\ InitClassifier
    /\ InitWakatime
    /\ InitWatcher
    /\ callArgs \in PluginInputs(MaxNameLen)
    /\ callResult = NoResult
    /\ observe = {}
    /\ settings = SettingsOn
    /\ monitored = {PathA}

PluginString ==
    /\ ~callResult.done
    /\ callResult' = [done |-> TRUE, text |-> pluginString(callArgs)]
    /\ UNCHANGED <<clockVars, classifierVars, throttleVars, statusVars, updateVars,
                   envVars, callArgs, trayVars, asyncVars, watcherVars, heartbeatObs,
                   summaryObs, updateObs>>

NextPlugin == PluginString

\* pluginString applied to each input
SpecPlugin == InitPlugin /\ [][NextPlugin]_vars

-----------------------------------------------------------------------------
(* LinuxWindowManager: the inspection of one window *)

\* the null or undefined of a pid
NoPid == -1

\* a file name extension, as one token of a path
Extensions == {".bin", ".sh"}

\* the place of the last "/" of a path (0: none)
LastSlash(p) ==
    LET at == {i \in 1..Len(p) : p[i] = "/"}
    IN  IF at = {} THEN 0 ELSE CHOOSE i \in at : \A j \in at : j <= i

\* path.parse(p).name: the last segment of the path without its extension
ParsedName(p) ==
    LET base == SubSeq(p, LastSlash(p) + 1, Len(p))
    IN  IF Len(base) > 1 /\ base[Len(base)] \in Extensions
        THEN SubSeq(base, 1, Len(base) - 1)
        ELSE base

\* buildWindowFromId returns null
NoSnapshot == [built |-> FALSE]

\* the catch block of buildWindowFromId
inspectionFailed(a) ==
    IF a.pidFromWmctrl \notin {NoPid, 0}
    THEN LET processPath == a.resolved
             execName == ParsedName(processPath)
         IN  IF processPath = Null
             THEN NoSnapshot
             ELSE [built |-> TRUE,
                   title |-> IF a.fallbackTitle # Null THEN a.fallbackTitle ELSE execName,
                   processId |-> a.pidFromWmctrl, path |-> processPath,
                   name |-> execName, execName |-> execName]
    ELSE NoSnapshot

\* buildWindowFromId(windowId, pidFromWmctrl, fallbackTitle), given what
\* "xprop -id" printed (or that it failed) and what readlink gives for the
\* pid asked about: wmClass is the list extractList returns (present: there
\* was a match), and a Null gtkAppId, title or resolved path is a null
buildWindowFromId(a) ==
    IF ~a.xpropOk
    THEN inspectionFailed(a)
    ELSE LET pid == IF a.pid # NoPid THEN a.pid ELSE a.pidFromWmctrl
             ttl == IF Truthy(a.title) THEN a.title
                      ELSE IF Truthy(a.fallbackTitle) THEN a.fallbackTitle
                      ELSE <<>>
             processPath == IF pid \notin {NoPid, 0} THEN a.resolved ELSE Null
             classes == a.wmClass.items
             hasClass == a.wmClass.present /\ classes # <<>>
             execName == IF Truthy(processPath) THEN ParsedName(processPath)
                         ELSE IF hasClass THEN classes[1]
                         ELSE Null
             \* wmClassRaw?.[wmClassRaw.length - 1] ?? gtkAppId ?? processPath
             tested == IF hasClass THEN classes[Len(classes)]
                       ELSE IF a.gtkAppId # Null THEN a.gtkAppId
                       ELSE processPath
         IN  IF Truthy(tested) /\ processPath = Null
             \* path.parse(null) throws a TypeError inside the try block
             THEN inspectionFailed(a)
             ELSE [built |-> TRUE, title |-> ttl, processId |-> pid,
                   path |-> processPath,
                   name |-> IF Truthy(tested) THEN ParsedName(processPath) ELSE ttl,
                   execName |-> execName]

WmClasses == {[present |-> FALSE, items |-> <<>>],
              [present |-> TRUE, items |-> <<>>],
              [present |-> TRUE, items |-> << <<"code">> >>],
              [present |-> TRUE, items |-> << <<"figma-linux">>, <<"Figma">> >>]}

ProcessPaths == {<<"/", "opt", "/", "figma-linux">>,
                 <<"/", "usr", "/", "lib", "/", "code", ".bin">>}

InspectInputs ==
    [fn : {"buildWindowFromId"}, xpropOk : BOOLEAN, pid : {NoPid, 0, 4711},
     title : {Null, <<>>, <<"Untitled">>}, wmClass : WmClasses,
     gtkAppId : {Null, <<"org.gnome.Nautilus">>}, resolved : ProcessPaths \cup {Null},
     pidFromWmctrl : {NoPid, 99}, fallbackTitle : {Null, <<"Files">>}]

InitInspect ==
    /\ InitClock
    /\ InitClassifier
    /\ InitWakatime
    /\ InitWatcher
    /\ callArgs \in InspectInputs
    /\ callResult = NoResult
    /\ observe = {}
    /\ settings = SettingsOn
    /\ monitored = {PathA}

Inspect ==
    /\ ~callResult.done
    /\ callResult' = [done |-> TRUE, window |-> buildWindowFromId(callArgs)]
    /\ UNCHANGED <<clockVars, classifierVars, throttleVars, statusVars, updateVars,
                   envVars, callArgs, trayVars, asyncVars, watcherVars, heartbeatObs,
                   summaryObs, updateObs>>

NextInspect == Inspect

\* buildWindowFromId applied to each input
SpecInspect == InitInspect /\ [][NextInspect]_vars

-----------------------------------------------------------------------------
(* LinuxWindowManager: the polling observer *)

WindowIds == {"0x1", "0x2"}

\* what the polling observer leaves alone: Wakatime and the Watcher
notObserverVars == <<clockVars, classifierVars, throttleVars, statusVars, updateVars,
                     envVars, pureVars, trayVars, asyncVars, activeWindow,
                     isWatchingForKeyboardEvents, listeners, activeWindowSubscription,
                     subscribed, heartbeatObs, summaryObs, updateObs>>

DonePoll == [sub |-> 0, stage |-> "done", windowId |-> NoWindowId]

\* the test that opens subscribeActiveWindow, taken as always passed
canSubscribe_Always == TRUE

\* subscribeActiveWindow goes on past "if (!this.dependenciesAvailable)"
canSubscribe == dependenciesAvailable

\* "changed" taken as true whatever the cached snapshot
changed_Always(cached, windowId) == TRUE

\* const changed = this.lastActiveWindow?.id !== window.id
changed(cached, windowId) == cached # windowId

\* poll() of a subscription up to its first await: fetchActiveWindow()
\* returns null without the dependencies, and else awaits "xprop -root"
pollStart(sub) ==
    polls' = Append(polls, IF dependenciesAvailable
                           THEN [sub |-> sub, stage |-> "root", windowId |-> NoWindowId]
                           ELSE DonePoll)

\* init() up to its first await
LinuxInitStart ==
    /\ initPc = "idle"
    /\ initPc' = "checking"
    /\ UNCHANGED <<notObserverVars, dependenciesAvailable, lastActiveWindow, subscriptions,
                   nextSubscriptionId, polls, osWindow, lastSubscribe, lastPoll,
                   delivered>>

\* commandExists("wmctrl") and commandExists("xprop") have settled
LinuxInitDone ==
    \E wmctrlExists \in BOOLEAN, xpropExists \in BOOLEAN :
        /\ initPc = "checking"
        /\ dependenciesAvailable' = (wmctrlExists /\ xpropExists)
        /\ initPc' = "ready"
        /\ UNCHANGED <<notObserverVars, lastActiveWindow, subscriptions, nextSubscriptionId, polls,
                       osWindow, lastSubscribe, lastPoll, delivered>>

\* subscribeActiveWindow(callback): the first poll() and setInterval
SubscribeActiveWindow ==
    IF ~canSubscribe
    THEN /\ lastSubscribe' = Unavailable
         /\ UNCHANGED <<notObserverVars, initPc, dependenciesAvailable, lastActiveWindow, subscriptions,
                        nextSubscriptionId, polls, osWindow, lastPoll, delivered>>
    ELSE /\ nextSubscriptionId <= MaxSubs
         /\ Len(polls) < MaxPolls
         /\ nextSubscriptionId' = nextSubscriptionId + 1
         /\ pollStart(nextSubscriptionId)
         /\ subscriptions' = subscriptions \cup {nextSubscriptionId}
         /\ lastSubscribe' = nextSubscriptionId
         /\ UNCHANGED <<notObserverVars, initPc, dependenciesAvailable, lastActiveWindow, osWindow,
                        lastPoll, delivered>>

\* the interval timer of a subscription fires
PollTick ==
    \E sub \in subscriptions :
        /\ Len(polls) < MaxPolls
        /\ pollStart(sub)
        /\ UNCHANGED <<notObserverVars, initPc, dependenciesAvailable, lastActiveWindow, subscriptions,
                       nextSubscriptionId, osWindow, lastSubscribe, lastPoll, delivered>>

\* unsubscribeActiveWindow(subscriptionId): clearInterval
UnsubscribeActiveWindow ==
    \E sub \in subscriptions :
        /\ subscriptions' = subscriptions \ {sub}
        /\ UNCHANGED <<notObserverVars, initPc, dependenciesAvailable, lastActiveWindow,
                       nextSubscriptionId, polls, osWindow, lastSubscribe, lastPoll,
                       delivered>>

\* the desktop activates another window
FocusChange ==
    \E id \in WindowIds :
        /\ id # osWindow
        /\ osWindow' = id
        /\ UNCHANGED <<notObserverVars, initPc, dependenciesAvailable, lastActiveWindow, subscriptions,
                       nextSubscriptionId, polls, lastSubscribe, lastPoll, delivered>>

\* a poll that ends without a window, with the cached snapshot dropped
noSnapshot_ClearsCache(p, how) ==
    /\ lastPoll' = [completed |-> FALSE, failed |-> TRUE, sub |-> p.sub, how |-> how,
                    writer |-> lastPoll.writer]
    /\ lastActiveWindow' = NoWindowId
    /\ UNCHANGED delivered

\* a poll ends without a window: fetchActiveWindow() threw and poll()
\* logged it, or it returned null; lastPoll observes how ("fail",
\* "nomatch", "inspect")
noSnapshot(p, how) ==
    /\ lastPoll' = [completed |-> FALSE, failed |-> TRUE, sub |-> p.sub, how |-> how,
                    writer |-> lastPoll.writer]
    /\ UNCHANGED <<lastActiveWindow, delivered>>

\* "xprop -root _NET_ACTIVE_WINDOW" of a poll settles: it fails, prints
\* nothing the pattern matches, or prints the id of the active window
RootReturns ==
    \E i \in 1..Len(polls), outcome \in {"fail", "nomatch", "ok"} :
        /\ polls[i].stage = "root"
        /\ IF outcome = "ok" /\ osWindow # NoWindowId
           THEN /\ polls' = [polls EXCEPT ![i] =
                                [@ EXCEPT !.stage = "inspect", !.windowId = osWindow]]
                /\ UNCHANGED <<lastActiveWindow, lastPoll, delivered>>
           ELSE /\ polls' = [polls EXCEPT ![i] = DonePoll]
                /\ noSnapshot(polls[i], IF outcome = "ok" THEN "nomatch" ELSE outcome)
        /\ UNCHANGED <<notObserverVars, initPc, dependenciesAvailable, subscriptions,
                       nextSubscriptionId, osWindow, lastSubscribe>>

\* "xprop -id" (and the readlink after it) of a poll settles: on failure
\* buildWindowFromId returns null and the poll ends; else the rest of poll()
\* runs: the snapshot is cached and, when changed, given to the callback.
\* lastPoll observes that rest: the cached id before it, whether the
\* callback was invoked, whether the subscription still had its timer, the
\* id last given to the same callback, and whether the poll that ended
\* before this one ended without a window; writer and over tell, by their
\* place in the order the polls started in, which poll wrote the cached
\* snapshot and which one had written the snapshot it replaced
InspectReturns ==
    \E i \in 1..Len(polls), ok \in BOOLEAN :
        /\ polls[i].stage = "inspect"
        /\ polls' = [polls EXCEPT ![i] = DonePoll]
        /\ IF ok
           THEN LET p == polls[i]
                    invoked == changed(lastActiveWindow, p.windowId)
                IN  /\ lastActiveWindow' = p.windowId
                    /\ lastPoll' = [completed |-> TRUE, sub |-> p.sub,
                                    windowId |-> p.windowId, cached |-> lastActiveWindow,
                                    invoked |-> invoked, live |-> p.sub \in subscriptions,
                                    prev |-> delivered[p.sub], failed |-> FALSE,
                                    afterFailure |-> lastPoll.failed,
                                    writer |-> i, over |-> lastPoll.writer]
                    /\ delivered' = IF invoked
                                    THEN [delivered EXCEPT ![p.sub] = p.windowId]
                                    ELSE delivered
           ELSE noSnapshot(polls[i], "inspect")
        /\ UNCHANGED <<notObserverVars, initPc, dependenciesAvailable, subscriptions, nextSubscriptionId,
                       osWindow, lastSubscribe>>

InitPoll ==
    /\ InitClock
    /\ InitClassifier
    /\ InitWakatime
    /\ InitWatcher
    /\ InitPure
    /\ observe = {}
    /\ settings = SettingsOn
    /\ monitored = {PathA}

NextPoll ==
    \/ LinuxInitStart
    \/ LinuxInitDone
    \/ SubscribeActiveWindow
    \/ PollTick
    \/ UnsubscribeActiveWindow
    \/ FocusChange
    \/ RootReturns
    \/ InspectReturns

\* the polling observer with its subscribers' callbacks observed
SpecPoll == InitPoll /\ [][NextPoll]_vars

-----------------------------------------------------------------------------
(* The heartbeat throttle *)

\* C1: a sendHeartbeat call with isWrite = false, the stored category, the
\* stored entity and less than 120 seconds after the last emission is not
\* approved, runs no CLI and leaves the state of Wakatime as it was.
C1_Suppressed ==
    [][(/\ nCalls' # nCalls
        /\ ~lastCall'.isWrite
        /\ lastCall'.category = lastCategory
        /\ lastCall'.entity = lastEntitiy
        /\ now - lastTime < ThrottleSeconds)
       => (/\ ~lastCall'.approved
           /\ ~lastCall'.spawned
           /\ UNCHANGED <<throttleVars, statusVars, updateVars, trayVars, inflight>>)]_vars

\* a non-write sample of the stored entity and category has just been
\* suppressed within the window of a dispatched heartbeat
C1_Witness ==
    /\ lastCall.called
    /\ ~lastCall.isWrite
    /\ ~lastCall.approved
    /\ lastCall.entity = lastEntitiy
    /\ lastCall.category = lastCategory
    /\ lastTime > 0
    /\ now - lastTime < ThrottleSeconds

\* C2: shouldSendHeartbeat approves every sample with isWrite = true.
C2_WriteApproved ==
    (lastCall.called /\ lastCall.isWrite) => lastCall.approved

\* a write sample was approved although a heartbeat of the same entity and
\* category is already in flight at the same instant
C2_Witness ==
    /\ lastCall.called
    /\ lastCall.isWrite
    /\ lastCall.approved
    /\ lastCall.spawned
    /\ inflight.heartbeat = 2

\* C3: two dispatched non-write heartbeats of the same entity and category
\* with no dispatched heartbeat of another entity or category between them
\* are more than 120 seconds apart, however the calls overlap.  (The clock
\* does not go back, so it is enough that each such heartbeat is more than
\* 120 seconds after the latest one before it.)
C3_ThrottleWindow ==
    (lastCall.called /\ lastCall.gap # -1) => lastCall.gap > ThrottleSeconds

\* a second non-write heartbeat of the same entity and category has been
\* dispatched while the first one's CLI was still running
C3_Witness ==
    /\ lastCall.called
    /\ lastCall.gap > ThrottleSeconds
    /\ inflight.heartbeat = 2

-----------------------------------------------------------------------------
(* The heartbeat dispatcher *)

\* C8: a heartbeat CLI error containing "ENOENT" puts the status indicator
\* in the alarm state and, where notifications are supported, shows the
\* remediation notification; one containing "EPERM" (and not "ENOENT")
\* does the same with another remediation text.
C8_AlarmOnEnoent ==
    (lastExec.done /\ lastExec.outcome.kind = "error") =>
        /\ lastExec.outcome.enoent =>
              /\ settings.tray => trayImage = "alarm"
              /\ settings.notifications => lastExec.notification = NotifyCli
        /\ (lastExec.outcome.eperm /\ ~lastExec.outcome.enoent) =>
              /\ settings.tray => trayImage = "alarm"
              /\ settings.notifications =>
                    /\ lastExec.notification = NotifyDefender
                    /\ lastExec.notification # NotifyCli

\* the CLI failed with ENOENT: the indicator is in the alarm state and the
\* remediation notification was shown
C8_Witness ==
    /\ lastExec.done
    /\ lastExec.outcome.kind = "error"
    /\ lastExec.outcome.enoent
    /\ settings.tray
    /\ settings.notifications
    /\ trayImage = "alarm"
    /\ lastExec.notification = NotifyCli

-----------------------------------------------------------------------------
(* The update coordinator *)

\* C9: with auto-update enabled in a non-development build, a call of
\* checkForUpdates() less than 600 seconds after the feed client was last
\* asked does not ask it again.
C9_OneCheckPerPeriod ==
    (/\ lastCheck.called
     /\ settings.autoUpdateEnabled
     /\ ~settings.isDev
     /\ lastCheck.sinceAsked # -1
     /\ lastCheck.sinceAsked < UpdateCheckSeconds)
    => ~lastCheck.checked

\* C10 as claimed: an "update available" event that follows one for the
\* same version starts no download, one for another version does.
C10_SecondSuppressed ==
    (lastEvent.type = "available" /\ lastEvent.prevType = "available") =>
        (lastEvent.acted <=> lastEvent.prevVersion # lastEvent.version)

\* C10 as the code has it: an "update available" event starts a download
\* unless the latest install-and-restart was triggered for the same
\* version at most 604800 seconds earlier.
C10_SuppressedAfterPrompt ==
    lastEvent.type = "available" =>
        (lastEvent.acted <=>
            ~(/\ lastInstall.version = lastEvent.version
              /\ lastEvent.at - lastInstall.at <= PromptSeconds))

\* an "update available" event was suppressed: its version had been
\* installed from an "update downloaded" event within the week
C10_Witness ==
    /\ lastEvent.type = "available"
    /\ ~lastEvent.acted
    /\ lastEvent.prevType = "downloaded"
    /\ lastEvent.prevVersion = lastEvent.version
    /\ lastEvent.at - lastInstall.at = PromptSeconds

-----------------------------------------------------------------------------
(* The classifier *)

\* C5: for a non-browser app whose catalog id is title-blocked, whatever
\* the window title, the entity resolves to null and no heartbeat data is
\* produced.
C5_BlockedIsNull ==
    (classified.done /\ app.present /\ ~app.isBrowser /\ app.id \in TitleBlocked)
    => (classified.entity = Null /\ classified.data = NoHeartbeat)

\* the position of the first " - " in a title (0: none)
FirstSeparator(t) ==
    IF \E i \in 1..Len(t) : IsSubAt(t, Separator, i)
    THEN CHOOSE i \in 1..Len(t) :
            /\ IsSubAt(t, Separator, i)
            /\ \A j \in 1..(i - 1) : ~IsSubAt(t, Separator, j)
    ELSE 0

\* the segment of a title before its first " - "
LeadingSegment(t) ==
    IF FirstSeparator(t) = 0 THEN t ELSE SubSeq(t, 1, FirstSeparator(t) - 1)

UntitledFigma == <<"Untitled", " ", "-", " ", "Figma">>
HomepageFigma == <<"Homepage", " ", "Design", " ", "-", " ", "Figma">>

\* C6 as claimed: for figma the entity is the leading segment of the
\* title, or null when that segment is empty or a placeholder, and
\* "Untitled - Figma" resolves to null.
C6_UntitledIsNull ==
    (classified.done /\ app.present /\ ~app.isBrowser /\ app.id = "figma") =>
        /\ classified.entity \in {Null, LeadingSegment(windowInfo.title)}
        /\ LeadingSegment(windowInfo.title) = <<>> => classified.entity = Null
        /\ windowInfo.title = UntitledFigma => classified.entity = Null
        /\ windowInfo.title = HomepageFigma => classified.entity = <<"Homepage", " ", "Design">>

\* C6 as the code has it: for figma the entity is the leading segment of
\* the title, and null exactly when that segment is empty, "Figma" or
\* "Drafts"; "Untitled - Figma" resolves to "Untitled".
C6_FigmaLeadingSegment ==
    (classified.done /\ app.present /\ ~app.isBrowser /\ app.id = "figma") =>
        LET seg == LeadingSegment(windowInfo.title)
        IN  /\ classified.entity = IF seg \in {<<>>, <<"Figma">>, <<"Drafts">>}
                                   THEN Null ELSE seg
            /\ windowInfo.title = UntitledFigma => classified.entity = <<"Untitled">>
            /\ windowInfo.title = HomepageFigma
                  => classified.entity = <<"Homepage", " ", "Design">>

\* figma classified a title with a second separator in its leading part
\* skipped: the entity ends at the first
C6_Witness ==
    /\ classified.done
    /\ app.id = "figma"
    /\ windowInfo.title = <<"Untitled", " ", "-", " ", "-", " ">>
    /\ classified.entity = <<"Untitled">>

\* a URL's host (with its non-default port) without a leading "www."
HostWithoutWww(url) ==
    LET h == UrlHost(url)
    IN  IF Len(h) >= 2 /\ h[1] = "www" /\ h[2] = "." THEN SubSeq(h, 3, Len(h)) ELSE h

\* the capture of the first pattern of the list that matches, or Null
FirstMatching(url) ==
    IF \E k \in 1..NumPatterns : PatternMatch(k, url) # Null
    THEN PatternMatch(CHOOSE k \in 1..NumPatterns :
                          /\ PatternMatch(k, url) # Null
                          /\ \A j \in 1..(k - 1) : PatternMatch(j, url) = Null,
                      url)
    ELSE Null

\* C7: for a browser whose URL passes the site filter, with the domain
\* preference, the entity is the URL's host without a leading "www." and
\* the project is the capture of the first pattern that matches.
C7_HostAndProject ==
    (/\ classified.done
     /\ app.present
     /\ app.isBrowser
     /\ Truthy(windowInfo.url)
     /\ siteAllowed
     /\ domainPreference = "domain")
    => /\ classified.data # NoHeartbeat
       /\ classified.data.entity = HostWithoutWww(windowInfo.url)
       /\ classified.data.project = FirstMatching(windowInfo.url)

\* the host name of a URL without a leading "www" "."
HostnameWithoutWww(url) ==
    LET h == UrlHostname(url)
    IN  IF Len(h) >= 2 /\ h[1] = "www" /\ h[2] = "." THEN SubSeq(h, 3, Len(h)) ELSE h

\* C27: with the domain preference, the entity of a browser URL is its
\* host name without a literal leading "www.", followed by ":" and the port
\* once when the port is not the default one, and by nothing otherwise.
C27_DomainEntity ==
    (/\ classified.done
     /\ app.present
     /\ app.isBrowser
     /\ Truthy(windowInfo.url)
     /\ siteAllowed
     /\ domainPreference = "domain")
    => classified.entity
       = HostnameWithoutWww(windowInfo.url)
         \o (IF UrlPort(windowInfo.url) # <<>>
             THEN <<":">> \o UrlPort(windowInfo.url) ELSE <<>>)

-----------------------------------------------------------------------------
(* The key-down sampling path *)

\* C4: whenever the classifier yields no entity for the current window,
\* heartbeatData is null and the key-down handler makes no sendHeartbeat
\* call; the entity handed to sendHeartbeat is never null or empty.
C4_NoEntityNoHeartbeat ==
    /\ (classified.done /\ ~Truthy(classified.entity))
          => (classified.data = NoHeartbeat /\ ~classified.sent)
    /\ (classified.done /\ classified.sent) => Truthy(classified.data.entity)

\* a key-down in a window with no entity was dropped after an earlier
\* key-down had led to a sendHeartbeat call
C4_Witness ==
    /\ classified.done
    /\ ~Truthy(classified.entity)
    /\ ~classified.sent
    /\ nCalls = 1

-----------------------------------------------------------------------------
(* The heartbeat dispatcher: rejected samples *)

\* C14: a sendHeartbeat call whose window has no executable path or a path
\* that is not monitored, or that has no display name, changes no
\* ThrottleState, spawns no CLI process, and triggers neither the summary
\* refresh nor the update check.
C14_RejectedLeavesNoTrace ==
    [][(/\ nCalls' # nCalls
        /\ \/ ~Truthy(lastGate'.windowPath)
           \/ lastGate'.windowPath \notin monitored
           \/ ~Truthy(lastGate'.appName))
       => /\ ~lastGate'.spawned
          /\ UNCHANGED <<throttleVars, inflight, statusVars, trayVars, updateVars,
                         feedAskedAt>>]_vars

\* a sample approved by the throttle was rejected for its path, which is
\* not monitored, after an earlier one had been dispatched
C14_Witness ==
    /\ lastGate.called
    /\ lastGate.approved
    /\ lastGate.windowPath = PathB
    /\ ~lastGate.spawned
    /\ lastTime # 0

\* C15: when the heartbeat dispatched last has failed (CLI error or
\* spawn exception), a non-write sample of the same entity and category
\* that arrives within 120 seconds of it is not approved and not
\* dispatched.
C15_NoRetryAfterFailure ==
    [][(/\ nCalls' # nCalls
        /\ latest.failed
        /\ ~lastCall'.isWrite
        /\ lastCall'.entity = latest.entity
        /\ lastCall'.category = latest.category
        /\ now - latest.time <= ThrottleSeconds)
       => (~lastCall'.approved /\ ~lastCall'.spawned /\ UNCHANGED inflight)]_vars

\* the sample of a failed heartbeat came again 120 seconds later and was
\* dropped
C15_Witness ==
    /\ latest.failed
    /\ lastCall.called
    /\ ~lastCall.isWrite
    /\ lastCall.entity = latest.entity
    /\ lastCall.category = latest.category
    /\ now - latest.time = ThrottleSeconds
    /\ nCalls = 2
    /\ ~lastCall.spawned

-----------------------------------------------------------------------------
(* The heartbeat dispatcher: what follows a dispatch *)

Count(r) == IF r.called THEN r.n ELSE 0

\* C17: when the CLI of a heartbeat settles, whatever the outcome,
\* sendHeartbeat calls fetchToday; it calls checkForUpdates once fetchToday
\* is over: at once when fetchToday did not run the CLI, and when that CLI
\* settles otherwise.
C17_FetchThenCheck ==
    [][/\ inflight'.heartbeat < inflight.heartbeat
          => /\ Count(lastFetch') = Count(lastFetch) + 1
             /\ Count(lastCheck') = Count(lastCheck)
                                    + (IF inflight'.today > inflight.today THEN 0 ELSE 1)
       /\ inflight'.today < inflight.today
          => Count(lastCheck') = Count(lastCheck) + 1]_vars

\* a dispatch whose exec threw, followed by both calls; a dispatch that
\* succeeded and one that failed are reached as well
C17_Witness ==
    /\ lastExec.done
    /\ lastExec.outcome.kind = "throw"
    /\ inflight = [heartbeat |-> 0, today |-> 0, todayAlone |-> 0]
    /\ nCalls = 2
    /\ Count(lastFetch) = 2
    /\ Count(lastCheck) = 2

-----------------------------------------------------------------------------
(* The summary fetcher *)

\* C18: two runs of the summary CLI are at least 120 seconds apart, also
\* when fetchToday calls overlap; a call less than 120 seconds after the
\* last run runs nothing and shows the cached text again.
C18_OneSpawnPerWindow ==
    (lastFetch.called /\ lastFetch.how # "cleared" /\ lastFetch.gap # -1) =>
        /\ lastFetch.how = "spawned" => lastFetch.gap >= CodeTimeSeconds
        /\ lastFetch.gap < CodeTimeSeconds =>
              /\ lastFetch.how = "reused"
              /\ settings.tray => trayTitle = lastCodeTimeText

\* a call refused 119 seconds after the last run while that run is still
\* awaited, and, elsewhere, a second run exactly 120 seconds after the first
C18_Witness ==
    /\ lastFetch.called
    /\ lastFetch.how = "reused"
    /\ lastFetch.gap = CodeTimeSeconds - 1
    /\ inflight.today + inflight.todayAlone > 0
    /\ settings.tray

C18_WitnessSecondRun ==
    /\ lastFetch.called
    /\ lastFetch.how = "spawned"
    /\ lastFetch.gap = CodeTimeSeconds
    /\ inflight.today + inflight.todayAlone = 2

\* C19: a summary query that fails, by an error result or by throwing,
\* leaves lastCodeTimeText and the status text as they were; the cached text
\* changes only when a query succeeds, to what the query printed.
C19_FailureKeepsSummary ==
    [][/\ (/\ inflight'.today + inflight'.todayAlone < inflight.today + inflight.todayAlone
           /\ lastSummary'.kind # "ok")
          => UNCHANGED <<lastCodeTimeText, trayTitle>>
       /\ lastCodeTimeText' # lastCodeTimeText
          => /\ inflight'.today + inflight'.todayAlone
                < inflight.today + inflight.todayAlone
             /\ lastSummary'.kind = "ok"
             /\ lastCodeTimeText' = lastSummary'.output]_vars

\* a query failed after an earlier one had put a text in the status bar
C19_Witness ==
    /\ lastSummary.done
    /\ lastSummary.kind = "error"
    /\ lastSummary.output # lastCodeTimeText
    /\ lastCodeTimeText # ""
    /\ trayTitle = lastCodeTimeText

-----------------------------------------------------------------------------
(* The update coordinator: downloaded updates *)

\* C20 as stated: an "update downloaded" event for the version recorded as
\* prompted less than 604800 seconds earlier installs nothing, and a version
\* is installed at most once in 604800 seconds.
C20_OncePerWeek ==
    (lastEvent.type = "downloaded" /\ lastEvent.acted /\ lastEvent.sinceSame # -1)
        => lastEvent.sinceSame >= PromptSeconds

\* C20 as the code has it: an "update downloaded" event installs and
\* records its version and the time, unless the latest install was of the
\* same version at most 604800 seconds earlier, and then it leaves the
\* record as it was; installs of other versions in between are not counted.
C20_InstallUnlessSuppressed ==
    lastEvent.type = "downloaded" =>
        /\ lastEvent.acted <=>
              ~(/\ lastEvent.installed = lastEvent.version
                /\ lastEvent.sinceInstall <= PromptSeconds)
        /\ lastEvent.acted =>
              /\ lastPromptedToUpdateVersion = lastEvent.version
              /\ lastPromptedToUpdateAt = lastEvent.at * MsPerSecond
              /\ lastInstall.version = lastEvent.version
              /\ lastInstall.at = lastEvent.at
        /\ ~lastEvent.acted =>
              /\ lastPromptedToUpdateVersion = lastEvent.installed
              /\ lastPromptedToUpdateAt
                 = (lastEvent.at - lastEvent.sinceInstall) * MsPerSecond
              /\ lastInstall.version = lastEvent.installed
              /\ lastInstall.at = lastEvent.at - lastEvent.sinceInstall

\* an "update downloaded" event was suppressed: its version had been
\* installed exactly 604800 seconds earlier
C20_Witness ==
    /\ lastEvent.type = "downloaded"
    /\ ~lastEvent.acted
    /\ lastEvent.sinceInstall = PromptSeconds
    /\ lastEvent.installed = lastEvent.version

-----------------------------------------------------------------------------
(* The heartbeat dispatcher: the status indicator *)

\* C21: an exception thrown by exec during a dispatch is handled like an
\* error result: the balloon is displayed, and with "ENOENT" or "EPERM" in
\* its message the indicator goes to the alarm state and the remediation
\* notification is shown.
C21_ThrowLikeError ==
    (lastExec.done /\ lastExec.outcome.kind = "throw") =>
        /\ settings.tray => lastExec.balloon
        /\ (lastExec.outcome.enoent \/ lastExec.outcome.eperm) =>
              /\ settings.tray => trayImage = "alarm"
              /\ settings.notifications => lastExec.notification # "none"

\* C22: when the CLI of a heartbeat ends without an error, the tray image
\* is the normal one afterwards, whatever it was before.
C22_SuccessResets ==
    (lastExec.done /\ lastExec.outcome.kind = "ok" /\ settings.tray) =>
        trayImage = "normal"

\* a success after a failure that had put the indicator in the alarm state
C22_Witness ==
    /\ lastExec.done
    /\ lastExec.outcome.kind = "ok"
    /\ settings.tray
    /\ lastExec.was = "alarm"
    /\ trayImage = "normal"

\* the exec of a heartbeat settled in this step, and how
heartbeatReturned == inflight'.heartbeat < inflight.heartbeat
plainError(outcome) ==
    outcome.kind = "error" /\ ~outcome.enoent /\ ~outcome.eperm
alarmingError(outcome) ==
    outcome.kind = "error" /\ (outcome.enoent \/ outcome.eperm)

\* C32: an error result with neither "ENOENT" nor "EPERM" in its text
\* leaves the tray image as it was and shows the balloon only; the image
\* leaves the alarm state only when a dispatch ends without an error, and
\* enters it only on an error with "ENOENT" or "EPERM", and a dispatch
\* ending without an error never leaves the alarm image behind: so the
\* image is the alarm one only if an earlier error had "ENOENT" or "EPERM"
\* and no dispatch ended without an error since.
C32_PlainErrorKeepsIndicator ==
    [][/\ (heartbeatReturned /\ plainError(lastExec'.outcome))
             => /\ trayImage' = trayImage
                /\ lastExec'.balloon = settings.tray
                /\ lastExec'.notification = "none"
       /\ (trayImage = "alarm" /\ trayImage' # "alarm")
             => heartbeatReturned /\ lastExec'.outcome.kind = "ok"
       /\ (trayImage # "alarm" /\ trayImage' = "alarm")
             => heartbeatReturned /\ alarmingError(lastExec'.outcome)
       /\ (heartbeatReturned /\ lastExec'.outcome.kind = "ok" /\ settings.tray)
             => trayImage' # "alarm"]_vars

\* an error without "ENOENT" and "EPERM" settled while the tray showed the
\* alarm image of an earlier failure, and the image is still the alarm one
C32_Witness ==
    /\ lastExec.done
    /\ plainError(lastExec.outcome)
    /\ settings.tray
    /\ lastExec.balloon
    /\ lastExec.was = "alarm"
    /\ trayImage = "alarm"

-----------------------------------------------------------------------------
(* The plugin string *)

\* a text without the characters that are no printable ASCII or are white
\* space
Sanitized(s) == SelectSeq(s, LAMBDA c : c \in PrintableAscii \ WhiteSpace)

\* C28: for an application with a name, the plugin string is the name, "/",
\* the version ("unknown" when there is none), a space and the host's
\* version string, the name and the version without white space; it holds
\* printable ASCII characters only, whatever the name and the version.
C28_PluginString ==
    (callResult.done /\ callArgs.fn = "pluginString"
     /\ Truthy(IF Truthy(callArgs.windowName) THEN callArgs.windowName
               ELSE callArgs.appName)) =>
        LET name == IF Truthy(callArgs.windowName) THEN callArgs.windowName
                    ELSE callArgs.appName
            version == IF callArgs.version = Null
                          \/ WithoutWhiteSpace(callArgs.version) = <<>>
                       THEN Unknown ELSE callArgs.version
            text == callResult.text
        IN  /\ \A i \in 1..Len(text) : text[i] \in PrintableAscii \cup Literals
            /\ text = Sanitized(name) \o <<"/">> \o
                      (IF version = Unknown THEN Unknown ELSE Sanitized(version))
                      \o <<" ">> \o VersionString

-----------------------------------------------------------------------------
(* The Watcher *)

\* C24: a change of the active window to a monitored application leads to
\* a sendHeartbeat call by itself, with no key pressed.
C24_FocusChangeSamples ==
    [][(activeWindow' # activeWindow /\ isWatchingForKeyboardEvents')
          => nCalls' = nCalls + 1]_vars

\* C29: the key-down listener is registered at most once and
\* isWatchingForKeyboardEvents tells whether it is; after the callback
\* accepted a window, it is registered exactly if the window has a path
\* that is monitored at that moment.
C29_ListenerMatchesWindow ==
    [][/\ listeners' <= 1
       /\ isWatchingForKeyboardEvents' <=> listeners' = 1
       /\ activeWindow' # activeWindow
          => (listeners' = 1 <=> (/\ Truthy(activeWindow'.info.path)
                                  /\ activeWindow'.info.path \in monitored))]_vars

\* the callback moved from a monitored window to one whose monitoring had
\* been turned on a moment earlier: the listener was replaced, not added
C29_Witness ==
    /\ activeWindow.info.path = PathB
    /\ PathB \in monitored
    /\ PathA \notin monitored
    /\ listeners = 1
    /\ isWatchingForKeyboardEvents

\* C30: once stop() has returned, no sendHeartbeat call is made.
C30_NoHeartbeatAfterStop ==
    [][(activeWindowSubscription # NoSubscription /\ ~subscribed) => nCalls' = nCalls]_vars

-----------------------------------------------------------------------------
(* The polling observer *)

\* C11: without wmctrl or xprop, subscribeActiveWindow returns -1 every
\* time it is called, no timer is started, no poll is run and no callback
\* is invoked.
C11_UnavailableIsNoOp ==
    ~dependenciesAvailable =>
        /\ lastSubscribe \in {NoSubscription, Unavailable}
        /\ subscriptions = {}
        /\ polls = <<>>
        /\ nextSubscriptionId = 1
        /\ ~lastPoll.completed

\* init() found a dependency missing and a subscription was asked for
C11_Witness ==
    /\ initPc = "ready"
    /\ ~dependenciesAvailable
    /\ lastSubscribe = Unavailable

\* C12: a callback is never invoked once its subscription was
\* unsubscribed, not even by a poll that was in flight at the time.
C12_NoCallbackAfterUnsubscribe ==
    (lastPoll.completed /\ lastPoll.invoked) => lastPoll.live

\* C13: a poll that observes the cached window id invokes no callback,
\* and while one subscription only was ever made, no callback invocation
\* carries the id of the one before it.
C13_OnlyOnChange ==
    lastPoll.completed =>
        /\ lastPoll.windowId = lastPoll.cached => ~lastPoll.invoked
        /\ (nextSubscriptionId <= 2 /\ lastPoll.invoked)
              => lastPoll.windowId # lastPoll.prev

\* the only subscription got a second callback, from the last poll the
\* bound allows
C13_Witness ==
    /\ nextSubscriptionId = 2
    /\ lastPoll.completed
    /\ lastPoll.invoked
    /\ lastPoll.prev # NoWindowId
    /\ Len(polls) = MaxPolls

\* C25: while one subscription only was ever made, a poll never replaces
\* the snapshot cached by a poll that started after it.
C25_NoStaleOverwrite ==
    (lastPoll.completed /\ nextSubscriptionId <= 2) => lastPoll.writer > lastPoll.over

\* C31: a poll of a subscription that still has its timer, when it
\* observes a window id other than the one last given to that
\* subscription's callback, gives it to the callback, however many
\* subscriptions there are.
C31_EverySubscriberNotified ==
    (lastPoll.completed /\ lastPoll.live /\ lastPoll.windowId # lastPoll.prev)
        => lastPoll.invoked

\* the same while one subscription only was ever made
C31_SoleSubscriberNotified ==
    nextSubscriptionId <= 2 => C31_EverySubscriberNotified

\* C26: the snapshot that the inspection of the active window builds is
\* named after the last WM_CLASS element when there is one, else after the
\* GTK application id, else after the base name of the process path, else it
\* has the window title for a name; with a WM_CLASS the snapshot is built
\* also when the process path cannot be resolved.
C26_NamePrecedence ==
    (callResult.done /\ callArgs.xpropOk /\ callArgs.pidFromWmctrl = NoPid) =>
        LET items == callArgs.wmClass.items
            w == callResult.window
        IN  IF items # <<>>
            THEN w.built /\ w.name = items[Len(items)]
            ELSE w.built =>
                    w.name = IF callArgs.gtkAppId # Null THEN callArgs.gtkAppId
                             ELSE IF w.path # Null THEN ParsedName(w.path)
                             ELSE w.title

\* C23: a poll in which xprop fails, its output does not match or the
\* inspection of the window fails ends with the cached snapshot as it was
\* and no callback invoked, and leaves every timer armed; a poll that ends
\* with a changed window right after such a poll invokes the callback.
C23_FailureIsNoSnapshot ==
    [][/\ (/\ lastPoll'.failed
           /\ \E i \in 1..Len(polls) :
                 polls[i].stage # "done" /\ polls'[i].stage = "done")
          => UNCHANGED <<lastActiveWindow, delivered, subscriptions>>
       /\ (/\ lastPoll'.completed
           /\ lastPoll'.afterFailure
           /\ lastPoll'.windowId # lastPoll'.cached)
          => /\ lastPoll'.invoked
             /\ delivered'[lastPoll'.sub] = lastPoll'.windowId]_vars

\* a subscription still armed got a changed window from the poll that
\* followed a failed one
C23_Witness ==
    /\ lastPoll.completed
    /\ lastPoll.afterFailure
    /\ lastPoll.invoked
    /\ lastPoll.live
    /\ lastPoll.prev # NoWindowId

====
